---- MODULE Spec2Model ----
(***************************************************************************)
(* Verification model of mixtec_fst: the rule-to-transducer compiler       *)
(* (src/mixtec_fst/src/rewrite.rs) and its driver                          *)
(* (src/mixtec_fst/src/main.rs).                                           *)
(*                                                                         *)
(* Automata are modelled structurally: numbered states, an optional start  *)
(* state, a final weight per state and an ordered list of transitions.     *)
(* Weights are tropical: "one" is cost 0, "zero" is cost +infinity.        *)
(***************************************************************************)
EXTENDS Integers, Sequences, FiniteSets, TLC

(***************************************************************************)
(* Bounds of the model.                                                    *)
(***************************************************************************)
\* Longest input string tried against a compiled fragment.
MaxStr == 2
\* Call depth at which the recursion of node_fst exhausts the stack.  It is
\* larger than the depth of every call chain over a macro table without a
\* cycle that the model draws, so only unbounded recursion reaches it.
StackLimit == 12

(***************************************************************************)
(* Weights (rustfst TropicalWeight).                                       *)
(***************************************************************************)
\* TropicalWeight::one()
WOne == 0
\* TropicalWeight::zero(): +infinity, absorbing for the path product
WZero == 1000000
\* Option<W>::None as a state's final weight: the state is not final
NotFinal == -1
\* the epsilon label, "<eps>" in every SymbolTable
EPS_LABEL == 0

(***************************************************************************)
(* VectorFst<TropicalWeight> and the rustfst primitives the code calls.    *)
(* States are 0 .. n-1; fin[s+1] is the final weight of state s.           *)
(***************************************************************************)
Tr(s, il, ol, w, t) == [s |-> s, il |-> il, ol |-> ol, w |-> w, t |-> t]

\* VectorFst::new()
NewFst == [n |-> 0, start |-> -1, fin |-> << >>, trs |-> << >>]

\* add_state: the new state's id is the old state count
AddState(f) == [f EXCEPT !.n = @ + 1, !.fin = Append(@, NotFinal)]

SetStart(f, s) == [f EXCEPT !.start = s]

SetFinal(f, s, w) == [f EXCEPT !.fin[s + 1] = w]

EmplaceTr(f, s, il, ol, w, t) == [f EXCEPT !.trs = Append(@, Tr(s, il, ol, w, t))]

\* fst![il => ol; w]: one transition of weight one, final weight w
LinearFst(il, ol, w) ==
    [n |-> 2, start |-> 0, fin |-> <<NotFinal, w>>,
     trs |-> <<Tr(0, il, ol, WOne, 1)>>]

FinalStates(f) == {s \in 0 .. f.n - 1 : f.fin[s + 1] /= NotFinal}

ShiftTrs(trs, k) ==
    [i \in 1 .. Len(trs) |-> [trs[i] EXCEPT !.s = @ + k, !.t = @ + k]]

RECURSIVE GlueFinals(_, _, _)
\* for every final state s < n1, in state order: an epsilon transition of
\* its final weight to `target`
GlueFinals(f, s, target) ==
    IF s >= f.n THEN << >>
    ELSE (IF f.fin[s + 1] /= NotFinal
          THEN <<Tr(s, EPS_LABEL, EPS_LABEL, f.fin[s + 1], target)>>
          ELSE << >>) \o GlueFinals(f, s + 1, target)

\* concat(&mut f1, &f2): f2's states are appended after f1's; every final
\* state of f1 loses its final weight and, when f2 has a start state, gets an
\* epsilon transition to it.  Nothing happens when f1 has no start state.
Concat(f1, f2) ==
    IF f1.start = -1 THEN f1
    ELSE [n     |-> f1.n + f2.n,
          start |-> f1.start,
          fin   |-> [i \in 1 .. f1.n |-> NotFinal] \o f2.fin,
          trs   |-> f1.trs \o ShiftTrs(f2.trs, f1.n)
                     \o (IF f2.start = -1 THEN << >>
                         ELSE GlueFinals(f1, 0, f2.start + f1.n))]

\* whether some transition enters the start state
InitialCyclic(f) == \E i \in 1 .. Len(f.trs) : f.trs[i].t = f.start

\* union(&mut f1, &f2)
Union(f1, f2) ==
    IF f2.start = -1 THEN f1
    ELSE LET g == [n     |-> f1.n + f2.n,
                   start |-> f1.start,
                   fin   |-> f1.fin \o f2.fin,
                   trs   |-> f1.trs \o ShiftTrs(f2.trs, f1.n)]
             s2 == f2.start + f1.n
         IN  IF f1.start = -1 THEN SetStart(g, s2)
             ELSE IF ~InitialCyclic(f1)
                  THEN EmplaceTr(g, f1.start, EPS_LABEL, EPS_LABEL, WOne, s2)
                  ELSE LET h == AddState(g)
                           ns == g.n
                       IN  EmplaceTr(
                             EmplaceTr(SetStart(h, ns), ns, EPS_LABEL,
                                       EPS_LABEL, WOne, f1.start),
                             ns, EPS_LABEL, EPS_LABEL, WOne, s2)

\* closure(&mut f, ClosurePlus): every final state loops back to the start
ClosurePlus(f) ==
    IF f.start = -1 THEN f
    ELSE [f EXCEPT !.trs = @ \o GlueFinals(f, 0, f.start)]

\* closure(&mut f, ClosureStar): ClosurePlus, then a new start state that is
\* final with weight one
ClosureStar(f) ==
    LET p  == ClosurePlus(f)
        h  == AddState(p)
        ns == p.n
        q  == IF p.start = -1 THEN h
              ELSE EmplaceTr(h, ns, EPS_LABEL, EPS_LABEL, WOne, p.start)
    IN  SetFinal(SetStart(q, ns), ns, WOne)

\* add_super_final_state: returns <<fst, super final state>>
AddSuperFinalState(f) ==
    LET F == FinalStates(f)
    IN  IF Cardinality(F) = 1 /\ (\A s \in F : f.fin[s + 1] = WOne)
        THEN <<f, CHOOSE s \in F : TRUE>>
        ELSE LET h  == AddState(f)
                 sf == f.n
             IN  <<[n     |-> h.n,
                    start |-> h.start,
                    fin   |-> [i \in 1 .. h.n |->
                                IF i = sf + 1 THEN WOne ELSE NotFinal],
                    trs   |-> h.trs \o GlueFinals(f, 0, sf)],
                   sf>>

(***************************************************************************)
(* SymbolTable: the sequence of its symbols; the label of a symbol is its  *)
(* index less one, "<eps>" being label 0.                                  *)
(***************************************************************************)
InTable(symt, s) == \E i \in 1 .. Len(symt) : symt[i] = s

\* SymbolTable::get_label: -1 stands for None
GetLabel(symt, s) ==
    IF InTable(symt, s) THEN (CHOOSE i \in 1 .. Len(symt) : symt[i] = s) - 1
    ELSE -1

\* Option::unwrap_or
UnwrapOr(l, d) == IF l = -1 THEN d ELSE l

(***************************************************************************)
(* The language of a fragment: the input strings (sequences of labels) on  *)
(* which some path of finite weight leads from the start to a final state. *)
(***************************************************************************)
ReachStep(f, str, C) ==
    C \cup {<<f.trs[i].t, c[2]>> :
              <<i, c>> \in {x \in (1 .. Len(f.trs)) \X C :
                  /\ f.trs[x[1]].s = x[2][1]
                  /\ f.trs[x[1]].w /= WZero
                  /\ f.trs[x[1]].il = EPS_LABEL}}
      \cup {<<f.trs[i].t, c[2] + 1>> :
              <<i, c>> \in {x \in (1 .. Len(f.trs)) \X C :
                  /\ f.trs[x[1]].s = x[2][1]
                  /\ f.trs[x[1]].w /= WZero
                  /\ f.trs[x[1]].il /= EPS_LABEL
                  /\ x[2][2] < Len(str)
                  /\ str[x[2][2] + 1] = f.trs[x[1]].il}}

RECURSIVE Reach(_, _, _)
Reach(f, str, C) ==
    LET D == ReachStep(f, str, C) IN IF D = C THEN C ELSE Reach(f, str, D)

Accepts(f, str) ==
    /\ f.start /= -1
    /\ \E c \in Reach(f, str, {<<f.start, 0>>}) :
          /\ c[2] = Len(str)
          /\ f.fin[c[1] + 1] \notin {NotFinal, WZero}

(***************************************************************************)
(* RegexAST (parserule::ruleparse).  Every node is a record of one shape:  *)
(* type is the variant, sym the character of Char or the name of Macro,    *)
(* syms the symbol set of Class / ClassComplement, kids the child nodes.   *)
(***************************************************************************)
Node(type, sym, syms, kids) ==
    [type |-> type, sym |-> sym, syms |-> syms, kids |-> kids]

Epsilon == Node("Epsilon", "", {}, << >>)
CommentNode == Node("Comment", "", {}, << >>)
Boundary == Node("Boundary", "", {}, << >>)
Char(c) == Node("Char", c, {}, << >>)
Macro(name) == Node("Macro", name, {}, << >>)
Class(set) == Node("Class", "", set, << >>)
ClassComplement(set) == Node("ClassComplement", "", set, << >>)
Group(nodes) == Node("Group", "", {}, nodes)
Disjunction(nodes) == Node("Disjunction", "", {}, nodes)
Star(n) == Node("Star", "", {}, <<n>>)
Plus(n) == Node("Plus", "", {}, <<n>>)
Option(n) == Node("Option", "", {}, <<n>>)

(***************************************************************************)
(* node_fst (rewrite.rs:154-302).  A call returns Ok(fst); the recursion   *)
(* has no guard, so a call chain deeper than the stack ends the process,   *)
(* which the model records as ok = FALSE.                                  *)
(***************************************************************************)
Ok(f) == [ok |-> TRUE, fst |-> f]
StackOverflow == [ok |-> FALSE, fst |-> NewFst]

\* fst![0 => 0] with the symbol tables set (rewrite.rs:159-161)
SeedFst == LinearFst(EPS_LABEL, EPS_LABEL, WOne)

\* macros.get(&macro_key).unwrap_or_else(|| &RegexAST::Epsilon)
MacroLookup(macros, key) ==
    IF key \in DOMAIN macros THEN macros[key] ELSE Epsilon

\* a Class falling back to label 1, as Boundary does, for an absent symbol
ClassLabel_FallbackOne(symt, s) == UnwrapOr(GetLabel(symt, s), 1)

\* the label a symbol of a Class contributes: the table's, or 0 with the
\* warning "is not in symbol table, using epsilon"
ClassLabel(symt, s) == UnwrapOr(GetLabel(symt, s), EPS_LABEL)

RECURSIVE ClassTrs(_, _, _, _)
\* for s in class.iter(): emplace_tr(q0, l, l, one, q1)
ClassTrs(symt, class, q0, q1) ==
    IF class = {} THEN << >>
    ELSE LET s == CHOOSE x \in class : TRUE
             l == ClassLabel(symt, s)
         IN  <<Tr(q0, l, l, WOne, q1)>> \o ClassTrs(symt, class \ {s}, q0, q1)

\* the two-state fragment of Class (rewrite.rs:204-219)
ClassFst(symt, class) ==
    [n |-> 2, start |-> 0, fin |-> <<NotFinal, WOne>>,
     trs |-> <<Tr(1, EPS_LABEL, EPS_LABEL, WZero, 1)>>
              \o ClassTrs(symt, class, 0, 1)]

\* a complement that forgets to exclude the boundary symbol
ComplementExclusions_NoBoundary(class) == class \cup {"<eps>"}

\* class.insert("#"); class.insert("<eps>")
ComplementExclusions(class) == class \cup {"#", "<eps>"}

RECURSIVE ComplementTrs(_, _, _)
\* for (l, s) in symt.iter(): if !class.contains(s) emplace_tr(q0, l, l, one, q1)
ComplementTrs(symt, class, i) ==
    IF i > Len(symt) THEN << >>
    ELSE (IF symt[i] \notin class
          THEN <<Tr(0, i - 1, i - 1, WOne, 1)>> ELSE << >>)
         \o ComplementTrs(symt, class, i + 1)

\* the two-state fragment of ClassComplement (rewrite.rs:225-236)
ComplementFst(symt, class) ==
    [n |-> 2, start |-> 0, fin |-> <<NotFinal, WOne>>,
     trs |-> ComplementTrs(symt, ComplementExclusions(class), 1)]

\* the seed of Disjunction: two more states and a transition of weight zero
\* between them (rewrite.rs:192-194)
DisjunctionSeed ==
    LET f == AddState(AddState(SeedFst))
    IN  EmplaceTr(f, 2, EPS_LABEL, EPS_LABEL, WZero, 3)

\* Option: the epsilon bypass from the start to the super final state
OptionFst(f) ==
    LET sf == AddSuperFinalState(f)
        start_state == IF f.start = -1 THEN 0 ELSE f.start
    IN  EmplaceTr(sf[1], start_state, EPS_LABEL, EPS_LABEL, WOne, sf[2])

RECURSIVE node_fst(_, _, _, _)
RECURSIVE GroupFold(_, _, _, _, _, _)
RECURSIVE DisjunctionFold(_, _, _, _, _, _)

\* d is the depth of the call on the stack
node_fst(symt, macros, node, d) ==
    IF d > StackLimit THEN StackOverflow
    ELSE CASE node.type = "Epsilon" -> Ok(SeedFst)
           [] node.type = "Comment" -> Ok(SeedFst)
           [] node.type = "Group" ->
                GroupFold(symt, macros, node.kids, 1, SeedFst, d)
           [] node.type = "Boundary" ->
                LET bnd_label == UnwrapOr(GetLabel(symt, "#"), 1)
                IN  Ok(Concat(SeedFst, LinearFst(bnd_label, bnd_label, WOne)))
           [] node.type = "Char" ->
                LET label == UnwrapOr(GetLabel(symt, node.sym), EPS_LABEL)
                IN  Ok(Concat(SeedFst, LinearFst(label, label, WOne)))
           [] node.type = "Disjunction" ->
                LET r == DisjunctionFold(symt, macros, node.kids, 1, NewFst, d)
                IN  IF r.ok THEN Ok(Concat(DisjunctionSeed, r.fst)) ELSE r
           [] node.type = "Class" ->
                Ok(Concat(SeedFst, ClassFst(symt, node.syms)))
           [] node.type = "ClassComplement" ->
                Ok(Concat(SeedFst, ComplementFst(symt, node.syms)))
           [] node.type = "Star" ->
                LET r == node_fst(symt, macros, node.kids[1], d + 1)
                IN  IF r.ok THEN Ok(Concat(SeedFst, ClosureStar(r.fst))) ELSE r
           [] node.type = "Plus" ->
                LET r == node_fst(symt, macros, node.kids[1], d + 1)
                IN  IF r.ok THEN Ok(Concat(SeedFst, ClosurePlus(r.fst))) ELSE r
           [] node.type = "Option" ->
                LET r == node_fst(symt, macros, node.kids[1], d + 1)
                IN  IF r.ok THEN Ok(Concat(SeedFst, OptionFst(r.fst))) ELSE r
           [] node.type = "Macro" ->
                LET r == node_fst(symt, macros,
                                  MacroLookup(macros, node.sym), d + 1)
                IN  IF r.ok THEN Ok(Concat(SeedFst, r.fst)) ELSE r

\* for node2 in nodes { concat(&mut fst, &node_fst(node2)?) }
GroupFold(symt, macros, nodes, i, fst, d) ==
    IF i > Len(nodes) THEN Ok(fst)
    ELSE LET r == node_fst(symt, macros, nodes[i], d + 1)
         IN  IF r.ok
             THEN GroupFold(symt, macros, nodes, i + 1, Concat(fst, r.fst), d)
             ELSE r

\* for node in nodes { union(&mut fst2, &node_fst(node)?) }
DisjunctionFold(symt, macros, nodes, i, fst2, d) ==
    IF i > Len(nodes) THEN Ok(fst2)
    ELSE LET r == node_fst(symt, macros, nodes[i], d + 1)
         IN  IF r.ok
             THEN DisjunctionFold(symt, macros, nodes, i + 1,
                                  Union(fst2, r.fst), d)
             ELSE r

(***************************************************************************)
(* linearze_rule_fst (rewrite.rs:63-152).                                  *)
(***************************************************************************)
\* parserule::rulefst::sigma_star: one state, start and final, with a loop of
\* weight one on every symbol of the table but epsilon
SigmaStar(symt) ==
    [n |-> 1, start |-> 0, fin |-> <<WOne>>,
     trs |-> [i \in 1 .. Len(symt) - 1 |-> Tr(0, i, i, WOne, 0)]]

\* every transition re-emplaced with output label 0
output_to_epsilons(f) ==
    [f EXCEPT !.trs = [i \in 1 .. Len(f.trs) |->
                         [f.trs[i] EXCEPT !.ol = EPS_LABEL]]]

\* every transition re-emplaced with input label 0
input_to_epsilons(f) ==
    [f EXCEPT !.trs = [i \in 1 .. Len(f.trs) |->
                         [f.trs[i] EXCEPT !.il = EPS_LABEL]]]

RewriteRule(left, source, right, target) ==
    [left |-> left, source |-> source, right |-> right, target |-> target]

\* nodes.iter().position(|x| x == &RegexAST::Char('>')), counted from 1;
\* 0 stands for None
ArrowPosition(nodes) ==
    IF \E i \in 1 .. Len(nodes) : nodes[i] = Char(">")
    THEN CHOOSE i \in 1 .. Len(nodes) :
            /\ nodes[i] = Char(">")
            /\ \A j \in 1 .. i - 1 : nodes[j] /= Char(">")
    ELSE 0

\* new_seq (rewrite.rs:85-90): Some(idx) => nodes[1..idx], None => nodes.
\* With idx = 0 the range 1..0 is out of order and the slice panics.
UnderlyingSeq(nodes) ==
    LET p == ArrowPosition(nodes)
    IN  IF p = 0 THEN [ok |-> TRUE, seq |-> nodes]
        ELSE IF p - 1 < 1 THEN [ok |-> FALSE, seq |-> << >>]
        ELSE [ok |-> TRUE, seq |-> SubSeq(nodes, 2, p - 1)]

\* match rule.left / rule.right { Epsilon => closure(sigma_star), _ => node_fst }
ContextFst(symt, macros, ctx) ==
    IF ctx = Epsilon THEN Ok(ClosureStar(SigmaStar(symt)))
    ELSE node_fst(symt, macros, ctx, 1)

\* what a call of linearze_rule_fst comes to: status "ok" with the assembled
\* automaton root, "panic" (the source is no Group, or the slice is out of
\* order) or "overflow" (node_fst exhausted the stack); new_seq is the
\* underlying sequence handed to node_fst, when one was
Outcome(status, new_seq, root) ==
    [status |-> status, new_seq |-> new_seq, root |-> root]

NoOutcome == Outcome("none", << >>, NewFst)

\* the chain of concatenations (rewrite.rs:119-128) and its last state made
\* final (rewrite.rs:131-135), wrapped in a fresh seed (rewrite.rs:137-141)
AssembleChain(drop_left, left_fst, src_fst, underlying_fst, right_fst, univ_acc, tgt_fst) ==
    LET f0 == SeedFst
        f1 == IF drop_left THEN f0 ELSE Concat(f0, left_fst)
        f2 == Concat(f1, src_fst)
        f3 == Concat(f2, underlying_fst)
        f4 == Concat(f3, right_fst)
        f5 == Concat(f4, univ_acc)
        f6 == Concat(f5, tgt_fst)
        last_state == f6.n - 1
        fst == SetFinal(f6, last_state, WOne)
    IN  SetStart(Concat(SeedFst, fst), 0)

linearze_rule_fst(symt, macros, rule, drop_left) ==
    IF rule.source.type /= "Group" THEN Outcome("panic", << >>, NewFst)
    ELSE
    LET u == UnderlyingSeq(rule.source.kids)
    IN  IF ~u.ok THEN Outcome("panic", << >>, NewFst)
        ELSE
        LET und == node_fst(symt, macros, Group(u.seq), 1)
            src == node_fst(symt, macros, rule.source, 1)
            tgt == node_fst(symt, macros, rule.target, 1)
            lft == ContextFst(symt, macros, rule.left)
            rgt == ContextFst(symt, macros, rule.right)
        IN  IF ~(und.ok /\ src.ok /\ tgt.ok /\ lft.ok /\ rgt.ok)
            THEN Outcome("overflow", IF und.ok THEN u.seq ELSE << >>, NewFst)
            ELSE Outcome("ok", u.seq,
                         AssembleChain(drop_left, lft.fst,
                                       output_to_epsilons(src.fst),
                                       input_to_epsilons(und.fst), rgt.fst,
                                       SigmaStar(symt),
                                       input_to_epsilons(tgt.fst)))

(***************************************************************************)
(* The rule-set union builder (main.rs:211-252).  The automaton of a file  *)
(* comes from parserule's compile_script; here an automaton is the list of *)
(* the automata unioned into it, each with the rule count of its script    *)
(* and the weights of the fillers concatenated after it.                   *)
(***************************************************************************)
\* the weight of the filler fst![0 => 0; 10.0], and of weighted_sigma_star
FillerWeight == 10

\* let mut num_compose = 1
InitialLevel == 1

Contribution(file, rules, fillers) ==
    [file |-> file, rules |-> rules, fillers |-> fillers]

\* weighted_sigma_star(symt, 10.0), the accumulator before the first file;
\* it is the contribution of no file (file 0)
WeightedSigmaStar == << Contribution(0, 0, << >>) >>

\* for rule in script: if let Statement::Rule(_) = rule { num_rules += 1 }
CountRules(script) ==
    Cardinality({ i \in 1 .. Len(script) : script[i] = "Rule" })

\* concat(&mut fst, &fst![0 => 0; w]) where fst is a union of several
\* but the first member only
ConcatFiller_FirstOnly(fst, w) ==
    [i \in 1 .. Len(fst) |->
        IF i = 1 THEN [fst[i] EXCEPT !.fillers = Append(@, w)] ELSE fst[i]]

\* concat(&mut fst, &fst![0 => 0; w]): every final state of fst is glued to
\* the filler, so every automaton unioned into fst is followed by it
ConcatFiller(fst, w) ==
    [i \in 1 .. Len(fst) |-> [fst[i] EXCEPT !.fillers = Append(@, w)]]

\* union(&mut fst, &fst_oth)
UnionInto(fst, fst_oth) == fst \o fst_oth

\* the while loop leaving one iteration early
Reweighting_OneShort(num_compose, num_rules) == num_compose + 1 < num_rules

\* while num_compose < num_rules
Reweighting(num_compose, num_rules) == num_compose < num_rules

\* the file padded once more than the difference
FilePadCount_OneMore(num_compose, num_rules) == num_compose - num_rules + 1

\* for _ in 0..num_compose-num_rules
FilePadCount(num_compose, num_rules) == num_compose - num_rules

Max(a, b) == IF a >= b THEN a ELSE b

RECURSIVE SeqMax(_)
SeqMax(q) == IF q = << >> THEN 0 ELSE Max(Head(q), SeqMax(Tail(q)))

(***************************************************************************)
(* can_generate_form (main.rs:77-121).  A string is a sequence of symbols. *)
(* The relation applied to the input (e2e) is the list of its accepting    *)
(* paths, each with its output string and its weight.                      *)
(***************************************************************************)
Path(out, w) == [out |-> out, w |-> w]

\* "#".to_string() + s + "#"
Wrap(s) == <<"#">> \o s \o <<"#">>

Digits == {"1", "2", "3", "4"}

\* the end of the match of [1234\>]*} from position i, or 0 when none
RECURSIVE AnnotationEnd(_, _)
AnnotationEnd(s, i) ==
    IF i > Len(s) THEN 0
    ELSE IF s[i] = "}" THEN i
    ELSE IF s[i] \in Digits \cup {">"} THEN AnnotationEnd(s, i + 1)
    ELSE 0

\* \>[1234\>]*} -> 0 / {[1234]* _ : after an opening brace and digits, the
\* arrow and what follows it up to the closing brace are deleted
RECURSIVE DeleteAnnotation(_, _, _)
DeleteAnnotation(s, i, after_brace) ==
    IF i > Len(s) THEN << >>
    ELSE IF after_brace /\ s[i] = ">" /\ AnnotationEnd(s, i + 1) /= 0
         THEN DeleteAnnotation(s, AnnotationEnd(s, i + 1) + 1, FALSE)
         ELSE <<s[i]>> \o
              DeleteAnnotation(s, i + 1,
                  s[i] = "{" \/ (after_brace /\ s[i] \in Digits))

\* { -> 0 / _ [1234]+ : an opening brace before a digit is deleted
RECURSIVE DeleteBrace(_, _)
DeleteBrace(s, i) ==
    IF i > Len(s) THEN << >>
    ELSE (IF s[i] = "{" /\ i < Len(s) /\ s[i + 1] \in Digits
          THEN << >> ELSE <<s[i]>>) \o DeleteBrace(s, i + 1)

\* get_fst_g3_to_base: the two rules in sequence
Normalize(s) == DeleteBrace(DeleteAnnotation(s, 1, FALSE), 1)

RECURSIVE InsertByWeight(_, _)
InsertByWeight(sorted, p) ==
    IF sorted = << >> THEN <<p>>
    ELSE IF p.w < Head(sorted).w THEN <<p>> \o sorted
    ELSE <<Head(sorted)>> \o InsertByWeight(Tail(sorted), p)

\* parserule::rulefst::decode_paths_through_fst: the (weight, output string)
\* pairs of the accepting paths, lowest weight first
RECURSIVE DecodePaths(_)
DecodePaths(paths) ==
    IF paths = << >> THEN << >>
    ELSE InsertByWeight(DecodePaths(Tail(paths)), Head(paths))

RECURSIVE SelectPaths(_, _, _)
SelectPaths(paths, output, normalize) ==
    IF paths = << >> THEN << >>
    ELSE LET p == Head(paths)
             o == IF normalize THEN Normalize(p.out) ELSE p.out
         IN  (IF o = output THEN <<Path(o, p.w)>> ELSE << >>)
             \o SelectPaths(Tail(paths), output, normalize)

\* the second composition left out: every path of e2e is kept
Generated_NotRestricted(e2e, output, is_g3) == e2e

\* generated (main.rs:102-109): e2e composed with the acceptor of `output`,
\* through the normalization relation unless is_g3; what is left of e2e are
\* the paths whose (normalized) output string is `output`
Generated(e2e, output, is_g3) == SelectPaths(e2e, output, ~is_g3)

RECURSIVE SeenFold(_, _)
RECURSIVE SeenFold_KeepFirst(_, _)
\* a fold that keeps the weight of the first path of each output string
SeenFold_KeepFirst(seen, paths) ==
    IF paths = << >> THEN seen
    ELSE LET p == Head(paths)
         IN  SeenFold_KeepFirst(IF p.out \in DOMAIN seen THEN seen
                                ELSE (p.out :> p.w) @@ seen,
                                Tail(paths))

\* the fold of paths_all into `seen` (main.rs:83-96)
SeenFold(seen, paths) ==
    IF paths = << >> THEN seen
    ELSE LET p == Head(paths)
         IN  SeenFold(IF p.out \in DOMAIN seen
                      THEN (IF seen[p.out] > p.w
                            THEN [seen EXCEPT ![p.out] = p.w] ELSE seen)
                      ELSE (p.out :> p.w) @@ seen,
                      Tail(paths))

\* the value returned (main.rs:112-120)
can_generate_form(e2e, form, is_g3) ==
    LET output == Wrap(form)
        paths == DecodePaths(Generated(e2e, output, is_g3))
    IN  IF paths /= << >> THEN paths[1].out = Wrap(form) ELSE FALSE

(***************************************************************************)
(* compile_as_linear (rewrite.rs:12-61).                                   *)
(***************************************************************************)
Statement(kind, mac, def, r) ==
    [kind |-> kind, mac |-> mac, def |-> def, rule |-> r]

NoRule == [left |-> Epsilon, source |-> Epsilon, right |-> Epsilon,
           target |-> Epsilon]

Comment == Statement("Comment", "", Epsilon, NoRule)
MacroDef(mac, def) == Statement("MacroDef", mac, def, NoRule)
Rule(r) == Statement("Rule", "", Epsilon, r)

\* an insertion that keeps the definition a name already has
MacroInsert_IfAbsent(macros, mac, def) == macros @@ (mac :> def)

\* macros.insert(mac, def): HashMap::insert stores def under mac, replacing
\* the value the key had; the old value it returns is dropped
MacroInsert(macros, mac, def) == (mac :> def) @@ macros

\* seg_first and tone_seg (rewrite.rs:40-41)
SegFirst(symt, macros) ==
    node_fst(symt, macros, Group(<<Boundary, Macro("segment")>>), 1)
ToneSeg(symt, macros) ==
    node_fst(symt, macros, Group(<<Macro("tone"), Macro("segment")>>), 1)

\* the number of compositions: for i in 0..4
Positions == 4

RECURSIVE ConcatCopies(_, _, _)
RECURSIVE ConcatCopies_OneMore(_, _, _)
\* a loop that runs once more: for _ in 0..=i
ConcatCopies_OneMore(fst2, tone_seg, i) ==
    IF i = 0 THEN Concat(fst2, tone_seg)
    ELSE ConcatCopies_OneMore(Concat(fst2, tone_seg), tone_seg, i - 1)

\* for _ in 0..i { concat(&mut fst2, &tone_seg) }
ConcatCopies(fst2, tone_seg, i) ==
    IF i = 0 THEN fst2
    ELSE ConcatCopies(Concat(fst2, tone_seg), tone_seg, i - 1)

\* fst = compose(fst, fst2) (rewrite.rs:49-52), as the term it computes: left
\* is the running result, fst2 is head with base concatenated after it
Compose(left, head, copies, base) ==
    [left |-> left, head |-> head, copies |-> copies, base |-> base,
     optimized |-> FALSE, minimized |-> FALSE]

\* optimize_fst(&mut fst) and minimize_with_config(&mut fst) (rewrite.rs:55-56)
OptimizeMinimize(t) == [t EXCEPT !.optimized = TRUE, !.minimized = TRUE]

(***************************************************************************)
(* State.                                                                  *)
(***************************************************************************)
VARIABLES
    pc,        \* position of the operation under way
    symt,      \* the symbol table shared by every automaton
    macros,    \* the macro table: a function from the defined names
    node,      \* node_fst: the RegexAST node to compile
    node_out,  \* node_fst: what the call returned
    rule,      \* linearze_rule_fst: the rule to assemble
    drop_left, \* linearze_rule_fst: whether the left context is dropped
    left_alt,  \* another left context, for a second call on the same rule
    rule_out,  \* linearze_rule_fst: the outcome for rule
    alt_out,   \* linearze_rule_fst: the outcome for rule with left_alt
    num_compose, \* union builder: the running padding level
    num_rules, \* union builder: the rule count of the file under way
    fst,       \* union builder: the accumulator
    fst_oth,   \* union builder: the automaton of the file under way
    pad_todo,  \* union builder: iterations left of the for loop
    files_done, \* union builder: the rule counts of the files processed
    level0,    \* observation: the padding level when the file was read
    acc_pads,  \* observation: fillers concatenated to fst for this file
    e2e,       \* can_generate_form: the accepting paths for the input
    paths_all, \* can_generate_form: the paths in the order they are folded
    form,      \* can_generate_form: the expected form
    is_g3,     \* can_generate_form: whether the form is the intermediate one
    seen,      \* can_generate_form: output string -> lowest weight seen
    verdict,   \* can_generate_form: the value returned
    script,    \* compile_as_linear: the statements
    stmt_i,    \* compile_as_linear: how many statements are processed
    base_fst,  \* compile_as_linear: the automata unioned so far
    composed   \* compile_as_linear: the right operands composed so far

vars == <<pc, symt, macros, node, node_out, rule, drop_left, left_alt,
          rule_out, alt_out, num_compose, num_rules, fst, fst_oth, pad_todo,
          files_done, level0, acc_pads, e2e, paths_all, form, is_g3, seen,
          verdict,
          script, stmt_i, base_fst, composed>>

linearVars == <<script, stmt_i, base_fst, composed>>

validateVars == <<e2e, paths_all, form, is_g3, seen, verdict>>

unionVars == <<num_compose, num_rules, fst, fst_oth, pad_todo, files_done,
               level0, acc_pads>>

nodeVars == <<node, node_out>>
ruleVars == <<rule, drop_left, left_alt, rule_out, alt_out>>

\* the variables of an operation that is not under way
NodeIdle == node = Epsilon /\ node_out = Ok(NewFst)
RuleIdle ==
    /\ rule = RewriteRule(Epsilon, Epsilon, Epsilon, Epsilon)
    /\ drop_left = FALSE
    /\ left_alt = Epsilon
    /\ rule_out = NoOutcome
    /\ alt_out = NoOutcome
UnionIdle ==
    /\ num_compose = InitialLevel
    /\ num_rules = 0
    /\ fst = WeightedSigmaStar
    /\ fst_oth = << >>
    /\ pad_todo = 0
    /\ files_done = << >>
    /\ level0 = InitialLevel
    /\ acc_pads = 0
ValidateIdle ==
    /\ e2e = << >>
    /\ paths_all = << >>
    /\ form = << >>
    /\ is_g3 = FALSE
    /\ seen = << >>
    /\ verdict = FALSE
LinearIdle ==
    /\ script = << >>
    /\ stmt_i = 0
    /\ base_fst = [determinized |-> 0, members |-> << >>]
    /\ composed = << >>

(***************************************************************************)
(* Inputs drawn by the specifications.                                     *)
(***************************************************************************)
\* SymbolTable::new() holds "<eps>"; get_symt_from_file adds the characters
\* and then "#".  The last table lacks "#", which node_fst provides for.
SymbolTables ==
    { <<"<eps>", "a", "b", "#">>, <<"<eps>", "a", "#">>, <<"<eps>", "b", "a">> }

\* the symbols a class may name: in some table, in none ("z"), or epsilon
ClassSymbols == {"a", "b", "#", "z", "<eps>"}

ClassSets == {S \in SUBSET ClassSymbols : Cardinality(S) <= 2}

MacroNames == {"m", "k"}

\* the definitions a MacroDef may give, some referring to macros
MacroBodies ==
    { Char("a"), Class({"a", "b"}), Macro("m"), Star(Macro("k")) }

MacroTables ==
    UNION { [D -> MacroBodies] : D \in SUBSET MacroNames }

LeafNodes ==
    { Epsilon, CommentNode, Boundary, Char("a"), Char("z"), Char(">"),
      Macro("m"), Macro("k") }
      \cup { Class(S) : S \in ClassSets }
      \cup { ClassComplement(S) : S \in ClassSets }

Nodes ==
    LeafNodes
      \cup { Star(Char("a")), Plus(Class({"a", "z"})), Option(Macro("m")),
             Option(Disjunction(<<Char("a"), Char("b")>>)),
             Disjunction(<< >>),
             Disjunction(<<Char("a"), Star(Macro("k"))>>),
             Group(<< >>),
             Group(<<Char("a"), Macro("k"), Boundary>>),
             Group(<<Star(Macro("m")), Class({"b"})>>) }

\* the strings of labels of symt, up to MaxStr long
RECURSIVE StringsUpTo(_, _)
StringsUpTo(L, k) ==
    IF k = 0 THEN { << >> }
    ELSE LET P == StringsUpTo(L, k - 1)
         IN  P \cup { Append(p, l) : <<p, l>> \in P \X L }

Strings(table) == StringsUpTo(1 .. Len(table) - 1, MaxStr)

(***************************************************************************)
(* SpecNode: one call of node_fst on drawn inputs.                         *)
(***************************************************************************)
InitNode ==
    /\ pc = "node_fst"
    /\ symt \in SymbolTables
    /\ macros \in MacroTables
    /\ node \in Nodes
    /\ node_out = Ok(NewFst)
    /\ RuleIdle
    /\ UnionIdle
    /\ ValidateIdle
    /\ LinearIdle

\* the call returns, or the process dies of stack exhaustion
NodeFst ==
    /\ pc = "node_fst"
    /\ node_out' = node_fst(symt, macros, node, 1)
    /\ pc' = IF node_out'.ok THEN "node_returned" ELSE "node_aborted"
    /\ UNCHANGED <<symt, macros, node, ruleVars, unionVars, validateVars,
                   linearVars>>

NextNode == NodeFst

SpecNode == InitNode /\ [][NextNode]_vars

(***************************************************************************)
(* Claims about node_fst.                                                  *)
(***************************************************************************)
\* C7: node_fst is total: for every node and every macro table, cyclic ones
\* included, the call terminates and returns an automaton (it never dies).
C7_Total == pc /= "node_aborted"

\* the fragment of a Class / ClassComplement node follows the two seed states
EntryState == SeedFst.n
ExitState == SeedFst.n + 1

EntryToExit(f, l) ==
    { i \in 1 .. Len(f.trs) :
        /\ f.trs[i].s = EntryState /\ f.trs[i].t = ExitState
        /\ f.trs[i].il = l /\ f.trs[i].ol = l /\ f.trs[i].w = WOne }

AllEntryToExit(f) ==
    { i \in 1 .. Len(f.trs) :
        f.trs[i].s = EntryState /\ f.trs[i].t = ExitState }

ClassDone == pc = "node_returned" /\ node.type = "Class"

\* C9 as stated: a Class has exactly one entry-to-exit transition for each
\* symbol of its set that is in the table, none for an absent symbol, and so
\* never accepts the empty string.
C9_AbsentSkipped ==
    ClassDone =>
        /\ Cardinality(AllEntryToExit(node_out.fst))
             = Cardinality({s \in node.syms : InTable(symt, s)})
        /\ ~Accepts(node_out.fst, << >>)

\* C9 amended: a Class has exactly one entry-to-exit transition of weight one
\* for each symbol of its set, labelled with the symbol's label when the symbol
\* is in the table and with epsilon (label 0) when it is absent; so it accepts
\* the empty string exactly when some symbol of the set is absent or is the
\* epsilon symbol, and accepts a string of one symbol exactly when that symbol
\* is in the set and in the table.
C9_AbsentIsEpsilon ==
    ClassDone =>
        /\ \A l \in 0 .. Len(symt) - 1 :
              Cardinality(EntryToExit(node_out.fst, l))
                = Cardinality({s \in node.syms :
                     IF InTable(symt, s) THEN GetLabel(symt, s) = l
                     ELSE l = EPS_LABEL})
        /\ Cardinality(AllEntryToExit(node_out.fst)) = Cardinality(node.syms)
        /\ \A str \in Strings(symt) :
              Accepts(node_out.fst, str) <=>
                \/ /\ str = << >>
                   /\ \E s \in node.syms :
                         ~InTable(symt, s) \/ GetLabel(symt, s) = EPS_LABEL
                \/ /\ Len(str) = 1
                   /\ symt[str[1] + 1] \in node.syms

\* a Class naming a symbol of the table and one outside it has been compiled
C9_Witness ==
    /\ ClassDone
    /\ node.syms = {"a", "z"}
    /\ Accepts(node_out.fst, << >>)
    /\ Accepts(node_out.fst, <<GetLabel(symt, "a")>>)

ComplementDone == pc = "node_returned" /\ node.type = "ClassComplement"

\* C10: a ClassComplement accepts exactly the strings of one symbol that is in
\* the table, not in the set, not the boundary "#" and not epsilon; it never
\* accepts the empty string.
C10_ComplementLanguage ==
    ComplementDone =>
        \A str \in Strings(symt) :
            Accepts(node_out.fst, str) <=>
                /\ Len(str) = 1
                /\ symt[str[1] + 1] \notin node.syms \cup {"#", "<eps>"}

\* ClassComplement({a}) over the table {a, b, #} accepts "b" and nothing else
C10_Witness ==
    /\ ComplementDone
    /\ symt = <<"<eps>", "a", "b", "#">>
    /\ node.syms = {"a"}
    /\ { str \in Strings(symt) : Accepts(node_out.fst, str) }
         = { <<GetLabel(symt, "b")>> }

(***************************************************************************)
(* SpecRule: linearze_rule_fst called on a drawn rule, and then on the     *)
(* same rule with another left context.                                    *)
(***************************************************************************)
RuleSymbolTables == { <<"<eps>", "a", "b", ">", "#">> }

\* without a cycle, with a cycle through "m", with "k" referring to "m"
RuleMacroTables ==
    { << >>,
      [n \in {"k"} |-> Class({"a", "b"})],
      [n \in {"m"} |-> Group(<<Char("a"), Macro("m")>>)],
      [n \in {"m", "k"} |-> IF n = "m" THEN Char("b") ELSE Star(Macro("m"))] }

RuleSources ==
    { Group(<<Char("a"), Char(">"), Char("b")>>),
      Group(<<Char("a"), Char("b"), Char(">"), Char("a"), Char(">"), Char("b")>>),
      Group(<<Char("a"), Macro("k"), Char(">"), Char("b")>>),
      Group(<<Char(">"), Char("a")>>),
      Group(<<Char("a"), Char("b")>>),
      Group(<<Char("a"), Char(">")>>),
      Group(<< >>),
      Char("a"),
      Epsilon }

RuleContexts == { Epsilon, Char("a"), Macro("m"), Star(Macro("k")) }

\* targets whose fragment ends in one final state, in several, in a state
\* added by a closure, and in none (a Disjunction of no alternatives)
RuleTargets ==
    { Epsilon, Group(<<Char("b")>>), Option(Char("a")), Star(Char("b")),
      Disjunction(<<Char("a"), Char("b")>>), Disjunction(<< >>) }

InitRule ==
    /\ pc = "linearze_rule_fst"
    /\ symt \in RuleSymbolTables
    /\ macros \in RuleMacroTables
    /\ rule \in { RewriteRule(l, s, r, t) :
                    <<l, s, r, t>> \in RuleContexts \X RuleSources
                                        \X {Epsilon, Char("b")} \X RuleTargets }
    /\ drop_left \in BOOLEAN
    /\ left_alt \in RuleContexts
    /\ rule_out = NoOutcome
    /\ alt_out = NoOutcome
    /\ NodeIdle
    /\ UnionIdle
    /\ ValidateIdle
    /\ LinearIdle

LinearzeRule ==
    /\ pc = "linearze_rule_fst"
    /\ rule_out' = linearze_rule_fst(symt, macros, rule, drop_left)
    /\ pc' = "linearze_alt"
    /\ UNCHANGED <<symt, macros, nodeVars, unionVars, validateVars,
                   linearVars, rule, drop_left, left_alt, alt_out>>

LinearzeAlt ==
    /\ pc = "linearze_alt"
    /\ alt_out' = linearze_rule_fst(symt, macros,
                                    [rule EXCEPT !.left = left_alt], drop_left)
    /\ pc' = "rule_done"
    /\ UNCHANGED <<symt, macros, nodeVars, unionVars, validateVars,
                   linearVars, rule, drop_left, left_alt, rule_out>>

NextRule == LinearzeRule \/ LinearzeAlt

SpecRule == InitRule /\ [][NextRule]_vars

(***************************************************************************)
(* Claims about linearze_rule_fst.                                         *)
(***************************************************************************)
\* C3: when rule.source is a Group whose first arrow is at index k (from 0),
\* the underlying sequence compiled is the elements 0 .. k-1 of the group, for
\* every k >= 0; without an arrow it is the whole group.
C3_UnderlyingIsPrefix ==
    (pc = "rule_done" /\ rule.source.type = "Group") =>
        LET nodes == rule.source.kids
            p == ArrowPosition(nodes)
        IN  /\ rule_out.status /= "panic"
            /\ rule_out.status = "ok" =>
                 rule_out.new_seq =
                    (IF p = 0 THEN nodes ELSE SubSeq(nodes, 1, p - 1))

\* C8: with drop_left the call yields the same automaton for two rules that
\* differ only in their left field.
C8_LeftIrrelevant ==
    (pc = "rule_done" /\ drop_left) => rule_out = alt_out

\* what remains of it: the two outcomes are equal whenever neither call ran
\* out of stack while compiling a fragment
LeftIrrelevantWhenBothReturn ==
    (pc = "rule_done" /\ drop_left /\ rule_out.status /= "overflow"
       /\ alt_out.status /= "overflow") => rule_out = alt_out

\* the fragments of rule, in the order the chain is said to hold them
ChainFragments ==
    LET F(n) == node_fst(symt, macros, n, 1).fst
    IN  (IF drop_left THEN << >>
         ELSE <<ContextFst(symt, macros, rule.left).fst>>)
        \o << output_to_epsilons(F(rule.source)),
              input_to_epsilons(F(Group(rule_out.new_seq))),
              ContextFst(symt, macros, rule.right).fst,
              SigmaStar(symt),
              input_to_epsilons(F(rule.target)) >>

RECURSIVE BlockOffset(_, _)
\* the state of root that is state 0 of the k-th fragment: the two seeds
\* (rewrite.rs:137 and rewrite.rs:70-77) come first
BlockOffset(fr, k) ==
    IF k = 1 THEN SeedFst.n + SeedFst.n
    ELSE BlockOffset(fr, k - 1) + fr[k - 1].n

InBlock(fr, k, s) ==
    /\ BlockOffset(fr, k) <= s
    /\ s < BlockOffset(fr, k) + fr[k].n

TrSet(trs) == { trs[i] : i \in 1 .. Len(trs) }

\* the transitions of root inside block k are those of the k-th fragment
BlockCarries(root, fr, k) ==
    { t \in TrSet(root.trs) : InBlock(fr, k, t.s) /\ InBlock(fr, k, t.t) }
        = TrSet(ShiftTrs(fr[k].trs, BlockOffset(fr, k)))

\* the transitions that leave block k are the epsilon transitions from the
\* final states of the k-th fragment to the start of the next one
BlockLinks(root, fr, k) ==
    { t \in TrSet(root.trs) : InBlock(fr, k, t.s) /\ ~InBlock(fr, k, t.t) }
        = { Tr(f + BlockOffset(fr, k), EPS_LABEL, EPS_LABEL, fr[k].fin[f + 1],
               fr[k + 1].start + BlockOffset(fr, k + 1)) :
              f \in FinalStates(fr[k]) }

\* the blocks follow one another in the order of fr, the seeds lead into the
\* first of them, and nothing leaves the last
ChainInOrder(root, fr) ==
    /\ root.n = BlockOffset(fr, Len(fr)) + fr[Len(fr)].n
    /\ root.start = 0
    /\ \A k \in 1 .. Len(fr) : BlockCarries(root, fr, k)
    /\ \A k \in 1 .. Len(fr) - 1 : BlockLinks(root, fr, k)
    /\ \A t \in TrSet(root.trs) : ~InBlock(fr, Len(fr), t.s) \/
                                   InBlock(fr, Len(fr), t.t)
    /\ \A t \in TrSet(root.trs) :
          t.s < BlockOffset(fr, 1) =>
             \/ t.t < BlockOffset(fr, 1) /\ t.t > t.s
             \/ t.t = fr[1].start + BlockOffset(fr, 1)

\* the state made final at rewrite.rs:131-135, as a state of the last fragment
MarkedState(root, fr) == root.n - 1 - BlockOffset(fr, Len(fr))

\* C11: the chain holds the fragments in the order left (unless drop_left),
\* source with outputs epsilon, underlying with inputs epsilon, right,
\* sigma-star, target with inputs epsilon; and the state marked accepting with
\* weight 0, the highest-numbered one, is a final state of the target
\* fragment, so that every accepted path goes through all fragments in order.
C11_OrderAndFinalOfTarget ==
    (pc = "rule_done" /\ rule_out.status = "ok") =>
        LET root == rule_out.root
            fr == ChainFragments
        IN  /\ ChainInOrder(root, fr)
            /\ root.fin[root.n] = WOne
            /\ MarkedState(root, fr) \in FinalStates(fr[Len(fr)])

\* what holds for every rule: the order of the fragments, and that the
\* accepting states of the chain are the final states of the target fragment
\* and its highest-numbered state
ChainOrderAndAccepting ==
    (pc = "rule_done" /\ rule_out.status = "ok") =>
        LET root == rule_out.root
            fr == ChainFragments
            last == Len(fr)
        IN  /\ ChainInOrder(root, fr)
            /\ root.fin[root.n] = WOne
            /\ FinalStates(root) =
                 { f + BlockOffset(fr, last) :
                     f \in FinalStates(fr[last]) \cup {fr[last].n - 1} }

\* a rule whose target fragment ends in a state that is not final
MarkedStateNotFinal ==
    /\ pc = "rule_done"
    /\ rule_out.status = "ok"
    /\ MarkedState(rule_out.root, ChainFragments)
          \notin FinalStates(ChainFragments[Len(ChainFragments)])

(***************************************************************************)
(* SpecUnion: the loop of main over the files of the source directory.     *)
(***************************************************************************)
\* most files of a directory, and most statements of a script
MaxFiles == 3
MaxStatements == 3

StatementKinds == {"Comment", "MacroDef", "Rule"}

Scripts == UNION { [1 .. k -> StatementKinds] : k \in 0 .. MaxStatements }

InitUnion ==
    /\ pc = "next_file"
    /\ symt = <<"<eps>", "a", "#">>
    /\ macros = << >>
    /\ NodeIdle
    /\ RuleIdle
    /\ UnionIdle
    /\ ValidateIdle
    /\ LinearIdle

\* the next directory entry is read, parsed, counted and compiled
\* (main.rs:213-227)
ReadFile ==
    /\ pc = "next_file"
    /\ Len(files_done) < MaxFiles
    /\ \E file_script \in Scripts :
          /\ num_rules' = CountRules(file_script)
          /\ fst_oth' = << Contribution(Len(files_done) + 1,
                                        CountRules(file_script), << >>) >>
          /\ IF CountRules(file_script) > num_compose
             THEN pc' = "reweight" /\ pad_todo' = 0
             ELSE /\ pc' = "pad_file"
                  /\ pad_todo' = FilePadCount(num_compose, CountRules(file_script))
    /\ level0' = num_compose
    /\ acc_pads' = 0
    /\ UNCHANGED <<symt, macros, nodeVars, ruleVars, validateVars, linearVars,
                   num_compose, fst, files_done>>

\* one iteration of the while loop (main.rs:230-237)
PadAccumulator ==
    /\ pc = "reweight"
    /\ Reweighting(num_compose, num_rules)
    /\ fst' = ConcatFiller(fst, FillerWeight)
    /\ num_compose' = num_compose + 1
    /\ acc_pads' = acc_pads + 1
    /\ UNCHANGED <<pc, symt, macros, nodeVars, ruleVars, validateVars,
                   linearVars, num_rules, fst_oth, pad_todo, files_done,
                   level0>>

\* one iteration of the for loop (main.rs:239-244)
PadFile ==
    /\ pc = "pad_file"
    /\ pad_todo > 0
    /\ fst_oth' = ConcatFiller(fst_oth, FillerWeight)
    /\ pad_todo' = pad_todo - 1
    /\ UNCHANGED <<pc, symt, macros, nodeVars, ruleVars, validateVars,
                   linearVars, num_compose, num_rules, fst, files_done,
                   level0, acc_pads>>

\* union(&mut fst, &fst_oth), once the loop taken has ended (main.rs:248)
UnionFile ==
    /\ \/ pc = "reweight" /\ ~Reweighting(num_compose, num_rules)
       \/ pc = "pad_file" /\ pad_todo = 0
    /\ fst' = UnionInto(fst, fst_oth)
    /\ files_done' = Append(files_done, num_rules)
    /\ pc' = "next_file"
    /\ UNCHANGED <<symt, macros, nodeVars, ruleVars, validateVars, linearVars,
                   num_compose, num_rules, fst_oth, pad_todo, level0,
                   acc_pads>>

\* the directory has no more entries: rm_epsilon and write (main.rs:250-252)
FinishUnion ==
    /\ pc = "next_file"
    /\ pc' = "union_built"
    /\ UNCHANGED <<symt, macros, nodeVars, ruleVars, unionVars, validateVars,
                   linearVars>>

NextUnion == ReadFile \/ PadAccumulator \/ PadFile \/ UnionFile \/ FinishUnion

SpecUnion == InitUnion /\ [][NextUnion]_vars

(***************************************************************************)
(* Claims about the union builder.                                         *)
(***************************************************************************)
\* between two files: every file read has been unioned
BetweenFiles == pc \in {"next_file", "union_built"}

\* C4 as stated: after each file the padding level is the largest rule count
\* of the files processed so far, files without a rule included.
C4_LevelIsMax ==
    (BetweenFiles /\ files_done /= << >>) => num_compose = SeqMax(files_done)

\* C4 amended: after each file the padding level is the largest rule count of
\* the files processed so far, or 1, its initial value, when none of them has
\* a rule.
C4_LevelIsMaxOrOne ==
    (BetweenFiles /\ files_done /= << >>) =>
        num_compose = Max(InitialLevel, SeqMax(files_done))

\* files with 0, 3 and 2 rules have been processed
C4_Witness ==
    /\ pc = "next_file"
    /\ files_done = <<0, 3, 2>>
    /\ num_compose = 3

\* the file just unioned: the last member of the accumulator
JustUnioned == pc = "next_file" /\ files_done /= << >>
LastMember == fst[Len(fst)]

\* C5: for a file of n rules read at level L: if n < L the file's automaton
\* gets L - n fillers of weight 10 and the accumulator none; if n > L the
\* accumulator gets n - L fillers of weight 10, the file's automaton none, and
\* the level becomes n; if n = L neither is padded.  The file is unioned only
\* after this padding.
C5_Padding ==
    /\ JustUnioned =>
          LET n == num_rules
              L == level0
          IN  /\ LastMember.file = Len(files_done)
              /\ LastMember.rules = n
              /\ \A i \in 1 .. Len(LastMember.fillers) :
                    LastMember.fillers[i] = 10
              /\ \A i \in 1 .. Len(fst) - 1 :
                    /\ Len(fst[i].fillers) >= acc_pads
                    /\ \A j \in 1 .. acc_pads :
                         fst[i].fillers[Len(fst[i].fillers) - j + 1] = 10
              /\ n < L => Len(LastMember.fillers) = L - n /\ acc_pads = 0
                            /\ num_compose = L
              /\ n > L => acc_pads = n - L /\ Len(LastMember.fillers) = 0
                            /\ num_compose = n
              /\ n = L => acc_pads = 0 /\ Len(LastMember.fillers) = 0
                            /\ num_compose = L
    \* while the file is being padded it is not yet in the accumulator
    /\ pc \in {"reweight", "pad_file"} =>
          /\ \A i \in 1 .. Len(fst) : fst[i].file <= Len(files_done)
          /\ Len(fst) = Len(files_done) + 1

\* a file of 1 rule was padded twice at level 3; before it, a file of 3 rules
\* had the accumulator padded twice at level 1
C5_Witness ==
    /\ JustUnioned
    /\ files_done = <<3, 1>>
    /\ level0 = 3
    /\ Len(LastMember.fillers) = 2
    /\ Len(fst[1].fillers) = 2

\* the fillers that follow file i's automaton in the accumulator
FillersOf(i) == fst[i + 1].fillers

\* C6 as stated: when all files are processed, the contribution of each file
\* of n rules carries M - n fillers, M the largest rule count of all files.
C6_FillersToMax ==
    pc = "union_built" =>
        \A i \in 1 .. Len(files_done) :
            Len(FillersOf(i)) = SeqMax(files_done) - files_done[i]

\* C6 amended: when all files are processed, the contribution of each file of
\* n rules carries max(M, 1) - n fillers of weight 10, M the largest rule
\* count of all files, whatever the order of the files; the level starts at
\* 1, so files that all have no rule carry one filler each.
C6_FillersToMaxOrOne ==
    pc = "union_built" =>
        \A i \in 1 .. Len(files_done) :
            /\ fst[i + 1].file = i
            /\ Len(FillersOf(i))
                 = Max(InitialLevel, SeqMax(files_done)) - files_done[i]
            /\ \A j \in 1 .. Len(FillersOf(i)) : FillersOf(i)[j] = 10

\* file A of 1 rule, then file B of 3 rules: A carries 2 fillers and B none
C6_Witness ==
    /\ pc = "union_built"
    /\ files_done = <<1, 3>>
    /\ Len(FillersOf(1)) = 2
    /\ Len(FillersOf(2)) = 0

\* file B of 3 rules, then file A of 1 rule: again A carries 2 and B none
C6_WitnessOtherOrder ==
    /\ pc = "union_built"
    /\ files_done = <<3, 1>>
    /\ Len(FillersOf(2)) = 2
    /\ Len(FillersOf(1)) = 0

(***************************************************************************)
(* SpecValidate: one call of can_generate_form.                            *)
(***************************************************************************)
\* most accepting paths of e2e
MaxPaths == 2

\* forms before wrapping; "a{1>2}" normalizes to "a1"
Forms ==
    { <<"a">>, <<"b">>, <<"a", "1">>, <<"a", "{", "1", ">", "2", "}">>,
      <<"{", "1", ">", "2", ">", "4", "}", "a">> , <<"3", "a">> }

PathWeights == {0, 1, 10}

Paths == { Path(Wrap(o), w) : <<o, w>> \in Forms \X PathWeights }

PathLists == UNION { [1 .. k -> Paths] : k \in 0 .. MaxPaths }

InitValidate ==
    /\ pc = "can_generate_form"
    /\ symt = <<"<eps>", "a", "#">>
    /\ macros = << >>
    /\ e2e \in PathLists
    /\ paths_all = << >>
    /\ form \in Forms
    /\ is_g3 \in BOOLEAN
    /\ seen = << >>
    /\ verdict = FALSE
    /\ NodeIdle
    /\ RuleIdle
    /\ UnionIdle
    /\ LinearIdle

\* the orders in which the accepting paths may come out of the enumeration
Orderings(paths) ==
    { [i \in 1 .. Len(paths) |-> paths[f[i]]] :
        f \in Permutations(1 .. Len(paths)) }

CanGenerateForm ==
    /\ pc = "can_generate_form"
    /\ paths_all' \in Orderings(DecodePaths(e2e))
    /\ seen' = SeenFold(<< >>, paths_all')
    /\ verdict' = can_generate_form(e2e, form, is_g3)
    /\ pc' = "validated"
    /\ UNCHANGED <<symt, macros, nodeVars, ruleVars, unionVars, linearVars,
                   e2e, form, is_g3>>

NextValidate == CanGenerateForm

SpecValidate == InitValidate /\ [][NextValidate]_vars

(***************************************************************************)
(* Claims about can_generate_form.                                         *)
(***************************************************************************)
\* the output string of a path as it is compared: normalized unless is_g3
ComparedOutput(p) == IF is_g3 THEN p.out ELSE Normalize(p.out)

PathIndices == 1 .. Len(e2e)

LowestWeight(i) == \A j \in PathIndices : e2e[i].w <= e2e[j].w

Produces(i) == ComparedOutput(e2e[i]) = Wrap(form)

\* C2 as stated: the call returns true exactly when the lowest-weight output
\* string (normalized unless is_g3) is the wrapped expected form; when only
\* paths that are not of lowest weight produce the form it returns false.
C2_BestOutputDecides ==
    pc = "validated" =>
        (verdict <=> \E i \in PathIndices : LowestWeight(i) /\ Produces(i))

\* C2 amended: the call returns true exactly when some accepting path for the
\* wrapped input, of lowest weight or not, has the wrapped expected form as
\* its output string (normalized unless is_g3).
C2_SomePathDecides ==
    pc = "validated" => (verdict <=> \E i \in PathIndices : Produces(i))

\* the form is produced, after normalization, by a path that is not of lowest
\* weight only, and the call has returned true
C2_Witness ==
    /\ pc = "validated"
    /\ ~is_g3
    /\ verdict
    /\ \E i \in PathIndices : Produces(i) /\ e2e[i].out /= Wrap(form)
    /\ \A i \in PathIndices : Produces(i) => ~LowestWeight(i)

\* the accepting paths whose output string is o
PathsOf(o) == { i \in PathIndices : e2e[i].out = o }

\* C13: after the path list is folded into `seen`, in whatever order, the map
\* holds exactly the distinct output strings of the paths, each with the
\* minimum weight over the paths that produce it.
C13_SeenIsMinimum ==
    pc = "validated" =>
        /\ DOMAIN seen = { e2e[i].out : i \in PathIndices }
        /\ \A o \in DOMAIN seen :
              /\ \E i \in PathsOf(o) : seen[o] = e2e[i].w
              /\ \A i \in PathsOf(o) : seen[o] <= e2e[i].w

\* two paths of one output string were folded, the heavier one first
C13_Witness ==
    /\ pc = "validated"
    /\ Len(paths_all) = 2
    /\ paths_all[1].out = paths_all[2].out
    /\ paths_all[1].w > paths_all[2].w
    /\ seen[paths_all[1].out] = paths_all[2].w

(***************************************************************************)
(* SpecLinear: compile_as_linear on a drawn script.                        *)
(***************************************************************************)
\* most statements of a script
MaxScript == 3

LinearSymbolTable == <<"<eps>", "a", "b", "1", ">", "#">>

ToneRule ==
    RewriteRule(Char("b"), Group(<<Char("a"), Macro("tone"), Char(">"), Char("b")>>),
                Epsilon, Group(<<Char("b")>>))

\* a rule whose source is no Group
BareRule == RewriteRule(Epsilon, Char("a"), Epsilon, Epsilon)

Statements ==
    { Comment,
      MacroDef("segment", Class({"a", "b"})),
      MacroDef("segment", Char("a")),
      MacroDef("tone", Class({"1"})),
      MacroDef("tone", Star(Macro("tone"))),
      Rule(ToneRule),
      Rule(BareRule) }

LinearScripts == UNION { [1 .. k -> Statements] : k \in 0 .. MaxScript }

InitLinear ==
    /\ pc = "statements"
    /\ symt = LinearSymbolTable
    /\ macros = << >>
    /\ script \in LinearScripts
    /\ stmt_i = 0
    /\ base_fst = [determinized |-> 0, members |-> <<SigmaStar(symt)>>]
    /\ composed = << >>
    /\ NodeIdle
    /\ RuleIdle
    /\ UnionIdle
    /\ ValidateIdle

AtStatement(kind) ==
    /\ pc = "statements"
    /\ stmt_i < Len(script)
    /\ script[stmt_i + 1].kind = kind

\* Statement::Comment => ()
ProcessComment ==
    /\ AtStatement("Comment")
    /\ stmt_i' = stmt_i + 1
    /\ UNCHANGED <<pc, symt, macros, nodeVars, ruleVars, unionVars,
                   validateVars, script, base_fst, composed>>

\* Statement::MacroDef((mac, def)) => macros.insert(mac, def)
ProcessMacroDef ==
    /\ AtStatement("MacroDef")
    /\ macros' = MacroInsert(macros, script[stmt_i + 1].mac,
                             script[stmt_i + 1].def)
    /\ stmt_i' = stmt_i + 1
    /\ UNCHANGED <<pc, symt, nodeVars, ruleVars, unionVars, validateVars,
                   script, base_fst, composed>>

\* the MacroDef statements for `name` among the first n statements
DefsBefore(name, n) ==
    { i \in 1 .. n : script[i].kind = "MacroDef" /\ script[i].mac = name }

\* the macro table the first n statements build (rewrite.rs:14-20)
MacrosAfter(n) ==
    [name \in { script[i].mac : i \in { j \in 1 .. n :
                                          script[j].kind = "MacroDef" } } |->
        script[CHOOSE i \in DefsBefore(name, n) :
                  \A j \in DefsBefore(name, n) : i >= j].def]

\* a rule assembled against the table of the whole script
AssembleOutcomes_FinalTable(r) ==
    LET asm == linearze_rule_fst(symt, MacrosAfter(Len(script)), r, TRUE)
    IN  IF asm.status = "panic" THEN {asm}
        ELSE {asm, Outcome("error", << >>, NewFst)}

\* what linearze_rule_fst comes to inside compile_as_linear: the calls of
\* the automaton library past the match of rewrite.rs:81-95 return a Result,
\* and any of them may hand an Err(e) back through `?`
AssembleOutcomes(r) ==
    LET asm == linearze_rule_fst(symt, macros, r, TRUE)
    IN  IF asm.status = "panic" THEN {asm}
        ELSE {asm, Outcome("error", << >>, NewFst)}

\* where the compilation is after the outcome of assembling a rule
AfterOutcome(status) ==
    CASE status = "ok" -> "statements"
      [] status = "panic" -> "linear_panicked"
      [] status = "error" -> "linear_failed"
      [] status = "overflow" -> "linear_aborted"

\* a compilation that goes on to the next statement when a rule fails
ProcessRule_SkipFailedRule ==
    /\ AtStatement("Rule")
    /\ \E out \in AssembleOutcomes(script[stmt_i + 1].rule) :
          base_fst' = IF out.status = "ok"
                      THEN [base_fst EXCEPT !.members = Append(@, out.root)]
                      ELSE base_fst
    /\ stmt_i' = stmt_i + 1
    /\ UNCHANGED <<pc, symt, macros, nodeVars, ruleVars, unionVars,
                   validateVars, script, composed>>

\* Statement::Rule(rule): the rule is assembled with drop_left and unioned
\* into base_fst; a panic, an Err or the death of the process ends the
\* compilation at this statement
ProcessRule ==
    /\ AtStatement("Rule")
    /\ \E out \in AssembleOutcomes(script[stmt_i + 1].rule) :
          /\ pc' = AfterOutcome(out.status)
          /\ IF out.status = "ok"
             THEN /\ base_fst' = [base_fst EXCEPT
                                    !.members = Append(@, out.root)]
                  /\ stmt_i' = stmt_i + 1
             ELSE UNCHANGED <<base_fst, stmt_i>>
    /\ UNCHANGED <<symt, macros, nodeVars, ruleVars, unionVars, validateVars,
                   script, composed>>

\* after the last statement: determinize, then seg_first and tone_seg
Determinize ==
    /\ pc = "statements"
    /\ stmt_i = Len(script)
    /\ base_fst' = [base_fst EXCEPT !.determinized = @ + 1]
    /\ pc' = IF SegFirst(symt, macros).ok /\ ToneSeg(symt, macros).ok
             THEN "compose" ELSE "linear_aborted"
    /\ UNCHANGED <<symt, macros, nodeVars, ruleVars, unionVars, validateVars,
                   script, stmt_i, composed>>

\* the running result of the loop: sigma_star (rewrite.rs:42) before the
\* first composition, the last term computed after it
RunningResult ==
    IF composed = << >> THEN SigmaStar(symt) ELSE composed[Len(composed)]

\* iteration i of the loop, up to the composition: fst2 is seg_first, i
\* copies of tone_seg and base_fst; fst = compose(fst, fst2)
ComposePosition ==
    /\ pc = "compose"
    /\ LET i == Len(composed)
       IN  composed' = Append(composed,
                Compose(RunningResult,
                        ConcatCopies(SegFirst(symt, macros).fst,
                                     ToneSeg(symt, macros).fst, i),
                        i, base_fst))
    /\ pc' = "minimize"
    /\ UNCHANGED <<symt, macros, nodeVars, ruleVars, unionVars, validateVars,
                   script, stmt_i, base_fst>>

\* the rest of iteration i: the result is optimized and minimized, and the
\* loop goes on to i + 1 or ends
MinimizePosition ==
    /\ pc = "minimize"
    /\ composed' = [composed EXCEPT ![Len(composed)] = OptimizeMinimize(@)]
    /\ pc' = IF Len(composed) = Positions THEN "linear_done" ELSE "compose"
    /\ UNCHANGED <<symt, macros, nodeVars, ruleVars, unionVars, validateVars,
                   script, stmt_i, base_fst>>

NextLinear ==
    \/ ProcessComment
    \/ ProcessMacroDef
    \/ ProcessRule
    \/ Determinize
    \/ ComposePosition
    \/ MinimizePosition

SpecLinear == InitLinear /\ [][NextLinear]_vars

(***************************************************************************)
(* Claims about compile_as_linear.                                         *)
(***************************************************************************)
\* the statements processed so far that define `name`
DefsOf(name) ==
    { i \in 1 .. stmt_i : script[i].kind = "MacroDef" /\ script[i].mac = name }

DefinedNames == { script[i].mac : i \in { j \in 1 .. stmt_i :
                                            script[j].kind = "MacroDef" } }

FirstDef(name) == CHOOSE i \in DefsOf(name) : \A j \in DefsOf(name) : i <= j
LastDef(name) == CHOOSE i \in DefsOf(name) : \A j \in DefsOf(name) : i >= j

\* C1 as stated: the macro table maps every defined name to the definition of
\* the first MacroDef for that name; a later MacroDef never replaces it.
C1_FirstDefinitionWins ==
    /\ DOMAIN macros = DefinedNames
    /\ \A name \in DefinedNames : macros[name] = script[FirstDef(name)].def

\* C1 amended: the macro table maps every defined name to the definition of
\* the last MacroDef for that name among the statements processed: a later
\* MacroDef with the same name replaces the stored definition.
C1_LastDefinitionWins ==
    /\ DOMAIN macros = DefinedNames
    /\ \A name \in DefinedNames : macros[name] = script[LastDef(name)].def

\* "segment" has been defined twice, differently
C1_Witness ==
    /\ Cardinality(DefsOf("segment")) = 2
    /\ script[FirstDef("segment")].def /= script[LastDef("segment")].def
    /\ macros["segment"] = script[LastDef("segment")].def

\* seg_first and then i times tone_seg: the fragments the right operand of
\* iteration i begins with
HeadFragments(i) ==
    <<SegFirst(symt, macros).fst>> \o [j \in 1 .. i |-> ToneSeg(symt, macros).fst]

RECURSIVE ConcatAll(_, _)
\* the first k automata of fr concatenated from left to right
ConcatAll(fr, k) ==
    IF k = 1 THEN fr[1] ELSE Concat(ConcatAll(fr, k - 1), fr[k])

\* C12: base_fst is determinized exactly once, after every statement is
\* processed and before any composition; then exactly 4 compositions are
\* done, the right operand of iteration i (0..3) being seg_first, exactly i
\* copies of tone_seg and the determinized base_fst; each result is optimized
\* and minimized before the next iteration, and the running result starts as
\* sigma-star.
C12_DeterminizeOnceComposeFour ==
    /\ pc = "statements" => base_fst.determinized = 0 /\ composed = << >>
    /\ pc \in {"compose", "minimize", "linear_done"} =>
          /\ base_fst.determinized = 1
          /\ stmt_i = Len(script)
    /\ Len(composed) <= Positions
    /\ pc = "linear_done" => Len(composed) = Positions
    /\ \A k \in 1 .. Len(composed) :
          /\ composed[k].head = ConcatAll(HeadFragments(k - 1), k)
          /\ composed[k].head.n = SegFirst(symt, macros).fst.n
                                    + (k - 1) * ToneSeg(symt, macros).fst.n
          /\ composed[k].base = base_fst
          /\ composed[k].left =
                IF k = 1 THEN SigmaStar(symt) ELSE composed[k - 1]
          /\ (k < Len(composed) \/ pc /= "minimize") =>
                composed[k].optimized /\ composed[k].minimized

\* a script with a rule and both macros has been compiled to the end
C12_Witness ==
    /\ pc = "linear_done"
    /\ Len(composed) = Positions
    /\ {"segment", "tone"} \subseteq DOMAIN macros
    /\ Len(base_fst.members) > 1
    /\ composed[Positions].copies = Positions - 1
    /\ composed[Positions].left.minimized

\* the rules among the first n statements
RulesUpTo(n) == { j \in 1 .. n : script[j].kind = "Rule" }

\* the compilation has ended at a rule: by the panic of rewrite.rs:94 or by
\* the Err that `?` hands on at rewrite.rs:28
EndedAtRule == pc \in {"linear_panicked", "linear_failed"}

\* C14: a Rule whose source is not a Group ends the compilation at that
\* rule: no automaton is returned, no statement after the rule is processed
\* and the rule is not tried again; the same holds when assembling a rule
\* returns an error.
C14_AbortAtRule ==
    /\ \A j \in RulesUpTo(stmt_i) : script[j].rule.source.type = "Group"
    /\ Len(base_fst.members) = 1 + Cardinality(RulesUpTo(stmt_i))
    /\ (AtStatement("Rule")
          /\ script[stmt_i + 1].rule.source.type /= "Group") =>
           \A out \in AssembleOutcomes(script[stmt_i + 1].rule) :
              AfterOutcome(out.status) = "linear_panicked"
    /\ pc = "linear_panicked" =>
           script[stmt_i + 1].rule.source.type /= "Group"
    /\ EndedAtRule =>
          /\ stmt_i < Len(script)
          /\ script[stmt_i + 1].kind = "Rule"
          /\ base_fst.determinized = 0
          /\ composed = << >>
          /\ ~ENABLED NextLinear

\* the second of three statements is a rule whose source is a Char: the
\* first statement is processed, the third is not
C14_Witness ==
    /\ pc = "linear_panicked"
    /\ Len(script) = 3
    /\ stmt_i = 1
    /\ script[2].rule.source.type = "Char"

\* a rule that could have been assembled came back as an error, with
\* statements left after it
RuleReturnedError ==
    /\ pc = "linear_failed"
    /\ stmt_i + 1 < Len(script)
    /\ linearze_rule_fst(symt, macros, script[stmt_i + 1].rule, TRUE).status
          = "ok"

\* the names a rule or the 4-position pass may refer to
LinearMacroNames == {"segment", "tone"}

\* table m with Epsilon under every name it lacks
EpsilonForUndefined(m) ==
    [name \in LinearMacroNames |->
        IF name \in DOMAIN m THEN m[name] ELSE Epsilon]

\* the automaton of the rule at statement j, assembled against table m
RuleAutomaton(j, m) == linearze_rule_fst(symt, m, script[j].rule, TRUE).root

RECURSIVE MembersUpTo(_)
\* sigma_star and, in order, the rules among the first n statements, each
\* assembled against the table of the statements before it
MembersUpTo(n) ==
    IF n = 0 THEN <<SigmaStar(symt)>>
    ELSE IF script[n].kind = "Rule"
         THEN Append(MembersUpTo(n - 1), RuleAutomaton(n, MacrosAfter(n - 1)))
         ELSE MembersUpTo(n - 1)

\* seg_first and i times tone_seg, compiled against table m
HeadFragmentsWith(m, i) ==
    <<node_fst(symt, m, Group(<<Boundary, Macro("segment")>>), 1).fst>>
      \o [j \in 1 .. i |->
            node_fst(symt, m, Group(<<Macro("tone"), Macro("segment")>>), 1).fst]

\* C15: each Rule is compiled against the macro table as it stands when the
\* rule is reached: a Macro in it resolves only to a MacroDef before the rule,
\* and one defined only later compiles as Epsilon; "segment" and "tone" of
\* the 4-position pass resolve against the table after the last statement;
\* a Comment changes neither the macro table nor the base automaton.
C15_MacrosAtRuleTime ==
    /\ macros = MacrosAfter(stmt_i)
    /\ base_fst.members = MembersUpTo(stmt_i)
    /\ \A j \in RulesUpTo(stmt_i) :
          RuleAutomaton(j, MacrosAfter(j - 1))
             = RuleAutomaton(j, EpsilonForUndefined(MacrosAfter(j - 1)))
    /\ \A k \in 1 .. Len(composed) :
          composed[k].head =
             ConcatAll(HeadFragmentsWith(MacrosAfter(Len(script)), k - 1), k)

\* a rule referring to "tone" came before the only definition of "tone":
\* its automaton is not the one the final table would give, and the
\* 4-position pass has used the definition
C15_Witness ==
    /\ pc = "linear_done"
    /\ Len(script) = 3
    /\ script[1] = Rule(ToneRule)
    /\ script[2] = MacroDef("tone", Class({"1"}))
    /\ script[3].kind = "Comment"
    /\ base_fst.members[2] /= RuleAutomaton(1, macros)
    /\ composed[2].head /= ConcatAll(HeadFragmentsWith(<< >>, 1), 2)

====
